---- MODULE Spec2Model ----
(***************************************************************************)
(* Model of the CANUSB backend (src/canusb_backend.py): the streaming      *)
(* frame decoder (_process_buffer), one iteration of the read loop         *)
(* (_read_loop_iteration) and the adapter init command (_init_adapter).    *)
(*                                                                         *)
(* Bytes are integers 0..255.  A CAN frame is the record                   *)
(* [id, dlc, data, is_extended]; its timestamp (time.time()) is not        *)
(* modelled, no claim reads it.                                            *)
(***************************************************************************)
EXTENDS Integers, Sequences, FiniteSets, TLC

VARIABLES
    can_speed,          \* self.can_speed
    ser_written,        \* the transport's log of writes (MockSerial.written)
    init_speeds,        \* history: can_speed at each _init_adapter call
    wire,               \* bytes still on the serial line, not yet arrived
    ser_in,             \* bytes pending in the transport; in_waiting = Len(ser_in)
    buffer,             \* self.buffer
    on_frame_received,  \* self.on_frame_received, a list of callback ids
    calls,              \* history: every callback invocation, in order
    fed,                \* history: every byte read from the transport so far
    split,              \* history: the bytes of fed came in more than one read
    steps,              \* history: every consuming step of the decoder's while loop
    ser,                \* self.ser: 0 is None, h >= 1 the h-th serial.Serial object
    opened,             \* the serial.Serial objects that are open
    running,            \* self.running
    read_thread,        \* self.read_thread: 0 is None, t >= 1 the t-th Thread object
    tpc,                \* where each loop thread stands in _read_loop
    tloc,               \* each loop thread's locals in _read_loop_iteration, _process_buffer
    cpc,                \* where the caller stands in connect() / disconnect()
    conn,               \* history: one record per connect() call
    last,               \* history: the caller operation that returned last
    disc,               \* history: what the last disconnect() did
    err,                \* history: an exception escaped a caller operation
    late,               \* history: a loop step was taken on a closed session
    dlog,               \* history: every frame dispatch begun, in order
    call_d,             \* history: for each entry of calls, its dispatch in dlog
    reg_at              \* history: for each registration, the dispatches begun before it

\* the fields of the session and of its loop threads, and their histories
sess == <<ser, opened, running, read_thread, tpc, tloc, cpc, conn, last, disc,
          err, late, dlog, call_d, reg_at>>

vars == <<can_speed, ser_written, init_speeds, wire, ser_in, buffer,
          on_frame_received, calls, fed, split, steps, sess>>

-----------------------------------------------------------------------------
(* Protocol constants                                                      *)

START_BYTE == 170
END_BYTE == 85
DATA_NIBBLE == 12
CMD_FRAME_LEN == 20
HEADER_LEN == 5
EXT_BIT == 32
CMD_TYPE == 18
DEFAULT_SPEED_BYTE == 3

-----------------------------------------------------------------------------
(* Sequence helpers (Python slicing)                                       *)

\* s[n:]
DropFirst(s, n) == SubSeq(s, n + 1, Len(s))

\* s[:n]
TakeFirst(s, n) == SubSeq(s, 1, n)

RECURSIVE SumSeq(_)
SumSeq(s) == IF s = <<>> THEN 0 ELSE Head(s) + SumSeq(Tail(s))

Zeros(n) == [i \in 1..n |-> 0]

-----------------------------------------------------------------------------
(* Command encoder                                                         *)

\* _generate_checksum: sum(data) & 0xFF
GenerateChecksum(data) == SumSeq(data) % 256

MappedSpeeds ==
    {1000000, 800000, 500000, 400000, 250000, 200000,
     125000, 100000, 50000, 20000, 10000, 5000}

\* speed_map of _init_adapter
SpeedMap(speed) ==
    CASE speed = 1000000 -> 1
      [] speed = 800000  -> 2
      [] speed = 500000  -> 3
      [] speed = 400000  -> 4
      [] speed = 250000  -> 5
      [] speed = 200000  -> 6
      [] speed = 125000  -> 7
      [] speed = 100000  -> 8
      [] speed = 50000   -> 9
      [] speed = 20000   -> 10
      [] speed = 10000   -> 11
      [] speed = 5000    -> 12

\* faulty variant: an unmapped speed takes the first code of the table
SpeedByteFirstCode(speed) ==
    IF speed \in MappedSpeeds THEN SpeedMap(speed) ELSE 1

\* speed_map.get(self.can_speed, 0x03)
SpeedByte(speed) ==
    IF speed \in MappedSpeeds THEN SpeedMap(speed) ELSE DEFAULT_SPEED_BYTE

\* faulty variant: the checksum also covers the two start bytes
InitCommandSumAll(speed) ==
    LET cmd == <<START_BYTE, END_BYTE, CMD_TYPE, SpeedByte(speed), 1>>
               \o Zeros(9) \o <<1>> \o Zeros(4)
    IN  Append(cmd, GenerateChecksum(cmd))

\* the 20 bytes _init_adapter builds: cmd, then checksum of cmd[2:]
InitCommand(speed) ==
    LET cmd == <<START_BYTE, END_BYTE, CMD_TYPE, SpeedByte(speed), 1>>
               \o Zeros(9) \o <<1>> \o Zeros(4)
    IN  Append(cmd, GenerateChecksum(DropFirst(cmd, 2)))

-----------------------------------------------------------------------------
(* Frame decoder                                                           *)

\* faulty variant: the identifier bytes are combined big-endian
FrameOfBigEndian(frame_data) ==
    LET dlc == frame_data[2] % 16
    IN  [id          |-> frame_data[3] * 256 + frame_data[4],
         dlc         |-> dlc,
         data        |-> SubSeq(frame_data, 5, 4 + dlc),
         is_extended |-> (frame_data[2] \div EXT_BIT) % 2 = 1]

\* faulty variant: the payload slice runs one byte too far
FrameOfLongPayload(frame_data) ==
    LET dlc == frame_data[2] % 16
    IN  [id          |-> frame_data[3] + frame_data[4] * 256,
         dlc         |-> dlc,
         data        |-> SubSeq(frame_data, 5, 5 + dlc),
         is_extended |-> (frame_data[2] \div EXT_BIT) % 2 = 1]

\* CANFrame(id, dlc, data, is_extended) built from frame_data = buffer[:frame_len]
FrameOf(frame_data) ==
    LET dlc == frame_data[2] % 16
    IN  [id          |-> frame_data[3] + frame_data[4] * 256,
         dlc         |-> dlc,
         data        |-> SubSeq(frame_data, 5, 4 + dlc),
         is_extended |-> (frame_data[2] \div EXT_BIT) % 2 = 1]

\* the loop ends: while condition false, or a break
Stop == [kind |-> "stop", n |-> 0]

\* faulty variant: a byte that is not the start byte ends the pass, nothing is popped
ResyncStepStops(buf) == Stop

\* faulty variant: resynchronisation pops two bytes
ResyncStepTwo(buf) == [kind |-> "resync", n |-> 2]

\* buffer[0] != 0xAA: self.buffer.pop(0); continue
ResyncStep(buf) == [kind |-> "resync", n |-> 1]

\* faulty variant: a command frame is taken to be 19 bytes long
CommandStepShort(buf) ==
    IF Len(buf) >= CMD_FRAME_LEN - 1
    THEN [kind |-> "command", n |-> CMD_FRAME_LEN - 1]
    ELSE Stop

\* buffer[1] == 0x55: a 20-byte command/response frame, dropped whole or waited for
CommandStep(buf) ==
    IF Len(buf) >= CMD_FRAME_LEN
    THEN [kind |-> "command", n |-> CMD_FRAME_LEN]
    ELSE Stop

\* faulty variant: a span whose end byte mismatches is rescanned byte by byte
DataStepRescan(buf) ==
    LET dlc == buf[2] % 16
        frame_len == dlc + HEADER_LEN
    IN  IF Len(buf) >= frame_len
        THEN IF buf[frame_len] = END_BYTE
             THEN [kind |-> "frame", n |-> frame_len]
             ELSE [kind |-> "badend", n |-> 1]
        ELSE Stop

\* faulty variant: a span whose end byte mismatches is left in the buffer
DataStepKeepsBadSpan(buf) ==
    LET dlc == buf[2] % 16
        frame_len == dlc + HEADER_LEN
    IN  IF Len(buf) >= frame_len /\ buf[frame_len] = END_BYTE
        THEN [kind |-> "frame", n |-> frame_len]
        ELSE Stop

\* faulty variant: a partial data frame is not waited for, its start byte is popped
DataStepDropPartial(buf) ==
    LET dlc == buf[2] % 16
        frame_len == dlc + HEADER_LEN
    IN  IF Len(buf) >= frame_len
        THEN IF buf[frame_len] = END_BYTE
             THEN [kind |-> "frame", n |-> frame_len]
             ELSE [kind |-> "badend", n |-> frame_len]
        ELSE [kind |-> "skip", n |-> 1]

\* (buffer[1] >> 4) == 0x0C: a data frame of dlc + 5 bytes
DataStep(buf) ==
    LET dlc == buf[2] % 16
        frame_len == dlc + HEADER_LEN
    IN  IF Len(buf) >= frame_len
        THEN IF buf[frame_len] = END_BYTE
             THEN [kind |-> "frame", n |-> frame_len]
             ELSE [kind |-> "badend", n |-> frame_len]
        ELSE Stop

\* faulty variant: an unknown second byte is popped together with the start byte
SkipStepWide(buf) == [kind |-> "skip", n |-> 2]

\* else: self.buffer.pop(0)
SkipStep(buf) == [kind |-> "skip", n |-> 1]

\* faulty variant: the data-frame branch looks at the two top bits only
IsDataTypeTopBits(type) == type \div 64 = 3

\* (self.buffer[1] >> 4) == 0x0C
IsDataType(type) == type \div 16 = DATA_NIBBLE

(* One pass of the while loop of _process_buffer on buffer buf: what it    *)
(* does (kind) and how many bytes it removes from the head (n).            *)
(*   stop    : the loop ends (empty buffer, or a break on a partial frame) *)
(*   resync  : buffer[0] != 0xAA, pop(0)                                   *)
(*   command : 0xAA 0x55 and >= 20 bytes, buffer = buffer[20:]             *)
(*   frame   : data frame ending in 0x55: callbacks, buffer[frame_len:]    *)
(*   badend  : data frame span not ending in 0x55: buffer[frame_len:]      *)
(*   skip    : unknown second byte, pop(0)                                 *)
DecodeStep(buf) ==
    IF Len(buf) = 0 THEN Stop
    ELSE IF buf[1] # START_BYTE THEN ResyncStep(buf)
    ELSE IF Len(buf) < 2 THEN Stop
    ELSE IF buf[2] = END_BYTE THEN CommandStep(buf)
    ELSE IF IsDataType(buf[2]) THEN DataStep(buf)
    ELSE SkipStep(buf)

\* for callback in self.on_frame_received: callback(frame)
Notify(cbs, frame) == [i \in 1..Len(cbs) |-> [cb |-> cbs[i], frame |-> frame]]

\* faulty variant: a frame found later in a pass is delivered first
RECURSIVE ProcessLoopReversed(_, _, _, _)
ProcessLoopReversed(buf, cbs, made, taken) ==
    LET st == DecodeStep(buf)
    IN  IF st.kind = "stop"
        THEN [buffer |-> buf, calls |-> made, steps |-> taken]
        ELSE ProcessLoopReversed(
                DropFirst(buf, st.n),
                cbs,
                IF st.kind = "frame"
                THEN Notify(cbs, FrameOf(TakeFirst(buf, st.n))) \o made
                ELSE made,
                Append(taken, st))

(* _process_buffer: the while loop run to its end.  Returns the retained   *)
(* buffer, the callback invocations it made and the consuming steps taken. *)
RECURSIVE ProcessLoop(_, _, _, _)
ProcessLoop(buf, cbs, made, taken) ==
    LET st == DecodeStep(buf)
    IN  IF st.kind = "stop"
        THEN [buffer |-> buf, calls |-> made, steps |-> taken]
        ELSE ProcessLoop(
                DropFirst(buf, st.n),
                cbs,
                IF st.kind = "frame"
                THEN made \o Notify(cbs, FrameOf(TakeFirst(buf, st.n)))
                ELSE made,
                Append(taken, st))

ProcessBuffer(buf, cbs) == ProcessLoop(buf, cbs, <<>>, <<>>)

\* faulty variant: the bytes read replace the buffer instead of extending it
ExtendReplace(buf, data) == data

\* self.buffer.extend(data)
Extend(buf, data) == buf \o data

-----------------------------------------------------------------------------
(* Bounds and inputs                                                       *)

MaxBytes == 5     \* longest free byte stream over ByteAlphabet
MaxTail == 1      \* segments that follow the head frame of a framed stream
MaxWrites == 2    \* init commands the transport logs
MaxConnects == 2  \* connect() calls on one session
MaxCallbacks == 2 \* add_callback calls after the first registration
MaxFrames == 2    \* data frames on the line of a connected session
MaxReconnects == 1 \* connect() calls on a session whose stopping is observed

\* a loop thread is created by each connect() that succeeds
Threads == 1..MaxConnects

\* the locals of a thread that holds nothing: the dispatch d it is in and the
\* for loop's position ci, the handle h got from self.ser (lines 82, 87, 88),
\* the argument n of line 88's read, data, dlc and frame_data
NoLocals == [d |-> 0, ci |-> 0, h |-> 0, n |-> 0, data |-> <<>>,
             dlc |-> 0, frame_data |-> <<>>]

\* no disconnect() has been called
NoDisconnect == [joined |-> FALSE, closed |-> FALSE, held |-> FALSE, live |-> FALSE]

\* 0xAA, 0x55, 0xC0 (data frame, dlc 0), 0x7F
ByteAlphabet == {170, 85, 192, 127}

FreeStreams == UNION {[1..k -> ByteAlphabet] : k \in 0..MaxBytes}

PayloadCount(L) == [i \in 1..L |-> i]
PayloadConst(L, b) == [i \in 1..L |-> b]

\* the bytes of a data frame on the wire
DataFrame(type, lo, hi, payload, term) == <<170, type, lo, hi>> \o payload \o <<term>>

\* AA C8 23 01 01..08 55, the frame of test_parse_data_frame
TestFrame == DataFrame(200, 35, 1, PayloadCount(8), 85)

\* AA E8 23 01 01..08 55: the same frame with bit 0x20 of the type byte set
ExtTestFrame == DataFrame(232, 35, 1, PayloadCount(8), 85)

\* AA C0 23 01 55
ShortFrame == DataFrame(192, 35, 1, <<>>, 85)

DataFrames ==
    {DataFrame(192 + L, 35, 1, PayloadCount(L), term) : L \in 0..15, term \in {85, 0}}
    \cup {DataFrame(224 + L, 35, 1, PayloadCount(L), 85) : L \in {0, 8}}
    \cup {DataFrame(192 + L, id[1], id[2], PayloadConst(L, b), 85) :
            L \in {1, 8}, id \in {<<170, 85>>, <<255, 255>>}, b \in {170, 85}}

\* 20-byte command/response frames: AA 55 and 18 more bytes
CommandFrames ==
    {<<170, 85>> \o PayloadConst(18, b) : b \in {0, 85, 170}}
    \cup {InitCommand(500000)}

HeadFrames == DataFrames \cup CommandFrames

\* nothing, or one stray byte ahead of the head frame: 0x7F, 0x55, 0xC8
Strays == {<<>>, <<127>>, <<85>>, <<200>>}

\* 0x7F, a lone 0xAA, a short data frame, the same with a wrong end byte
TailSegments == {<<127>>, <<170>>, ShortFrame, DataFrame(192, 35, 1, <<>>, 0)}

RECURSIVE Tails(_)
Tails(n) ==
    IF n = 0 THEN {<<>>}
    ELSE Tails(n - 1) \cup {t \o g : t \in Tails(n - 1), g \in TailSegments}

FramedStreams == {s \o f \o t : s \in Strays, f \in HeadFrames, t \in Tails(MaxTail)}

Streams == FreeStreams \cup FramedStreams

UnmappedSpeeds == {0, 777, 500001, 2000000}

Speeds == MappedSpeeds \cup UnmappedSpeeds

-----------------------------------------------------------------------------
(* The session after __init__                                              *)

\* nothing has happened yet: the port has logged nothing, no byte is pending,
\* no thread exists, the histories are empty
NothingYet ==
    /\ ser_written = <<>>
    /\ init_speeds = <<>>
    /\ ser_in = <<>>
    /\ calls = <<>>
    /\ fed = <<>>
    /\ split = FALSE
    /\ steps = <<>>
    /\ tpc = [t \in Threads |-> "none"]
    /\ tloc = [t \in Threads |-> NoLocals]
    /\ cpc = "idle"
    /\ conn = <<>>
    /\ last = "none"
    /\ disc = NoDisconnect
    /\ err = FALSE
    /\ late = FALSE
    /\ dlog = <<>>
    /\ call_d = <<>>

\* __init__, lines 22-30: the fields of a new session
InitSession ==
    /\ NothingYet
    /\ ser = 0
    /\ opened = {}
    /\ running = FALSE
    /\ read_thread = 0
    /\ on_frame_received = <<>>
    /\ reg_at = <<>>
    /\ buffer = <<>>

\* the session as the test sets it up (test_protocol.py, lines 24-30): a new
\* session whose ser is the open mock port, running set by hand and one
\* callback registered
InitHarness ==
    /\ NothingYet
    /\ ser = 1
    /\ opened = {1}
    /\ running = TRUE
    /\ read_thread = 0
    /\ on_frame_received = <<1>>
    /\ reg_at = <<0>>
    /\ buffer = <<>>

-----------------------------------------------------------------------------
(* Decoder: bytes arrive at the transport, the loop iterates               *)

InitDecode ==
    /\ InitHarness
    /\ can_speed = 500000
    /\ wire \in Streams

\* one more byte of the line reaches the transport (in_waiting grows by one)
Arrive ==
    /\ wire # <<>>
    /\ ser_in' = Append(ser_in, Head(wire))
    /\ wire' = Tail(wire)
    /\ UNCHANGED <<can_speed, ser_written, init_speeds, buffer, on_frame_received,
                   calls, fed, split, steps, sess>>

\* _read_loop_iteration: read what is pending, extend the buffer, _process_buffer
ReadLoopIteration ==
    LET data == ser_in
        extended == IF Len(ser_in) > 0 THEN Extend(buffer, data) ELSE buffer
        r == ProcessBuffer(extended, on_frame_received)
    IN  /\ ser \in opened
        /\ ser_in' = <<>>
        /\ buffer' = r.buffer
        /\ calls' = calls \o r.calls
        /\ steps' = steps \o r.steps
        /\ fed' = fed \o data
        /\ split' = (split \/ (fed # <<>> /\ data # <<>>))
        /\ UNCHANGED <<can_speed, ser_written, init_speeds, wire, on_frame_received, sess>>

\* the port receives bytes; the loop iterates while self.running (line 80)
NextDecode == Arrive \/ (running /\ ReadLoopIteration)

SpecDecode == InitDecode /\ [][NextDecode]_vars

-----------------------------------------------------------------------------
(* Command encoder: sessions are constructed on an open port with any      *)
(* speed and _init_adapter is called on them                               *)

\* CANUSBBackend(port, can_speed = speed) and ser set to the open mock port,
\* as test_protocol.py lines 24-26 do
InitCmd ==
    /\ NothingYet
    /\ ser = 1
    /\ opened = {1}
    /\ running = FALSE
    /\ read_thread = 0
    /\ on_frame_received = <<>>
    /\ reg_at = <<>>
    /\ buffer = <<>>
    /\ can_speed \in Speeds
    /\ wire = <<>>

\* another session is constructed the same way on the same port: every field
\* is as __init__ leaves it, ser is the port
NewSession ==
    \E speed \in Speeds :
        /\ can_speed' = speed
        /\ ser' = 1
        /\ running' = FALSE
        /\ read_thread' = 0
        /\ on_frame_received' = <<>>
        /\ reg_at' = <<>>
        /\ buffer' = <<>>
        /\ UNCHANGED <<ser_written, init_speeds, wire, ser_in, calls, fed, split,
                       steps, opened, tpc, tloc, cpc, conn, last, disc, err, late,
                       dlog, call_d>>

\* _init_adapter: self.ser.write(cmd)
InitAdapter ==
    /\ ser \in opened
    /\ Len(ser_written) < MaxWrites
    /\ ser_written' = Append(ser_written, InitCommand(can_speed))
    /\ init_speeds' = Append(init_speeds, can_speed)
    /\ UNCHANGED <<can_speed, wire, ser_in, buffer, on_frame_received,
                   calls, fed, split, steps, sess>>

NextCmd == NewSession \/ InitAdapter

SpecCmd == InitCmd /\ [][NextCmd]_vars

-----------------------------------------------------------------------------
(* Predicates on byte sequences used by the properties                     *)

\* 0xAA, type 0xC0|L, id low, id high, L payload bytes, 0x55
WellFormed(s) ==
    /\ Len(s) >= 5
    /\ s[1] = 170
    /\ s[2] \in 192..207
    /\ Len(s) = (s[2] - 192) + 5
    /\ s[Len(s)] = 85

\* the frame a well-formed data frame s stands for, read off the wire format
Expected(s) ==
    [id          |-> s[3] + 256 * s[4],
     dlc         |-> s[2] - 192,
     data        |-> [i \in 1..(s[2] - 192) |-> s[4 + i]],
     is_extended |-> FALSE]

\* a proper prefix of a frame: a lone 0xAA, 0xAA 0x55 and fewer than 20 bytes,
\* or 0xAA, a type byte 0xC0|L and fewer than L+5 bytes
IsPartial(s) ==
    /\ Len(s) >= 1
    /\ s[1] = 170
    /\ \/ Len(s) = 1
       \/ s[2] = 85 /\ Len(s) < 20
       \/ s[2] \in 192..207 /\ Len(s) < (s[2] - 192) + 5

\* s starts with a whole data frame ending in 0x55
StartsWithDataFrame(s) ==
    /\ Len(s) >= 5
    /\ s[1] = 170
    /\ s[2] \in 192..207
    /\ Len(s) >= (s[2] - 192) + 5
    /\ s[(s[2] - 192) + 5] = 85

\* s starts with a whole 20-byte command frame
StartsWithCommand(s) == Len(s) >= 20 /\ s[1] = 170 /\ s[2] = 85

\* s starts with a data frame span whose end byte is not 0x55
StartsWithBadSpan(s) ==
    /\ Len(s) >= 5
    /\ s[1] = 170
    /\ s[2] \in 192..207
    /\ Len(s) >= (s[2] - 192) + 5
    /\ s[(s[2] - 192) + 5] # 85

-----------------------------------------------------------------------------
(* C1: incremental delivery equals batch delivery: however the bytes read   *)
(* so far were split into reads, the callbacks invoked and the buffer       *)
(* retained are those of one _process_buffer pass over all of them.         *)
C1_IncrementalEqualsBatch ==
    LET batch == ProcessBuffer(fed, on_frame_received)
    IN  /\ calls = batch.calls
        /\ buffer = batch.buffer

\* a frame was dispatched from bytes that came in several reads, and a partial
\* frame is retained
C1_Witness ==
    /\ split
    /\ Len(calls) >= 1
    /\ buffer # <<>>
    /\ ser_in = <<>>

(* C2: a well-formed data frame fed into an empty buffer is dispatched once *)
(* with dlc = L, data = its L payload bytes, id = low | high << 8,          *)
(* is_extended = false, and exactly L+5 bytes are removed; the test frame   *)
(* AA C8 23 01 01..08 55 gives id 0x123, dlc 8, data 1..8.                  *)
C2_WellFormedFrameDecoded ==
    WellFormed(fed) =>
        /\ Len(calls) = 1
        /\ calls[1] = [cb |-> on_frame_received[1], frame |-> Expected(fed)]
        /\ steps = <<[kind |-> "frame", n |-> (fed[2] - 192) + 5]>>
        /\ Len(fed) - Len(buffer) = (fed[2] - 192) + 5
        /\ fed = TestFrame =>
              calls[1].frame = [id |-> 291, dlc |-> 8,
                                data |-> <<1, 2, 3, 4, 5, 6, 7, 8>>,
                                is_extended |-> FALSE]

\* the test frame was read in one piece and dispatched
C2_Witness ==
    /\ fed = TestFrame
    /\ ~split
    /\ Len(calls) = 1
    /\ calls[1].frame.id = 291
    /\ buffer = <<>>

(* C3: the frame AA E8 23 01 01..08 55 (bit 0x20 of the type byte set) fed  *)
(* into an empty buffer is dispatched once with id 0x123, dlc 8, data 1..8  *)
(* and is_extended = true.                                                  *)
C3_ExtendedFrameDecoded ==
    fed = ExtTestFrame =>
        calls = <<[cb |-> on_frame_received[1],
                   frame |-> [id |-> 291, dlc |-> 8,
                              data |-> <<1, 2, 3, 4, 5, 6, 7, 8>>,
                              is_extended |-> TRUE]]>>

(* C4: while the bytes read contain no 0xAA, however they were split, the   *)
(* buffer is empty after each pass, every byte was removed one at a time    *)
(* and no callback was invoked.                                             *)
C4_NoStartByteAllDiscarded ==
    (\A i \in 1..Len(fed) : fed[i] # 170) =>
        /\ buffer = <<>>
        /\ calls = <<>>
        /\ Len(steps) = Len(fed)
        /\ \A i \in 1..Len(steps) : steps[i].n = 1

\* five bytes without 0xAA were read in several reads and all discarded
C4_Witness ==
    /\ Len(fed) = 5
    /\ \A i \in 1..Len(fed) : fed[i] # 170
    /\ split
    /\ buffer = <<>>
    /\ Len(steps) = 5

(* C5 as stated: a pass over a buffer that holds only a proper prefix of a  *)
(* frame changes nothing and dispatches nothing, and once the missing bytes *)
(* are appended the next pass dispatches the frame (a command frame too).   *)
C5_CompletedPrefixDispatched ==
    [][ReadLoopIteration =>
        LET seen == buffer \o ser_in
        IN  /\ IsPartial(seen) =>
                 buffer' = seen /\ calls' = calls /\ steps' = steps
            /\ (IsPartial(buffer) /\ (StartsWithDataFrame(seen) \/ StartsWithCommand(seen))) =>
                 /\ Len(steps') > Len(steps)
                 /\ steps'[Len(steps) + 1].kind = "frame"
                 /\ Len(calls') > Len(calls)
       ]_vars

(* C5 amended: a pass over a buffer that holds only a proper prefix of a    *)
(* frame changes nothing and dispatches nothing; once the missing bytes are *)
(* appended, the next pass dispatches the frame if it is a data frame       *)
(* ending in 0x55, and removes the 20 bytes of a command frame without      *)
(* dispatching it.                                                          *)
C5_PartialFrameRetained ==
    [][ReadLoopIteration =>
        LET seen == buffer \o ser_in
        IN  /\ IsPartial(seen) =>
                 buffer' = seen /\ calls' = calls /\ steps' = steps
            /\ (IsPartial(buffer) /\ StartsWithDataFrame(seen)) =>
                 /\ Len(steps') > Len(steps)
                 /\ steps'[Len(steps) + 1] = [kind |-> "frame", n |-> (seen[2] - 192) + 5]
                 /\ Len(calls') > Len(calls)
                 /\ calls'[Len(calls) + 1] =
                       [cb |-> on_frame_received[1],
                        frame |-> Expected(SubSeq(seen, 1, (seen[2] - 192) + 5))]
            /\ (IsPartial(buffer) /\ StartsWithCommand(seen)) =>
                 /\ Len(steps') > Len(steps)
                 /\ steps'[Len(steps) + 1] = [kind |-> "command", n |-> 20]
                 /\ calls' = calls \o ProcessBuffer(DropFirst(seen, 20), on_frame_received).calls
       ]_vars

\* the test frame came in several reads: its prefix was retained, then completed
C5_Witness ==
    /\ fed = TestFrame
    /\ split
    /\ Len(calls) = 1
    /\ calls[1].frame = Expected(TestFrame)
    /\ buffer = <<>>

(* C6: one stray byte other than 0xAA ahead of a well-formed data frame in  *)
(* an empty buffer: exactly one single-byte resynchronisation discard, then *)
(* exactly that frame is dispatched, and the buffer is left empty.          *)
C6_StrayByteThenFrame ==
    (Len(fed) >= 1 /\ fed[1] # 170 /\ WellFormed(Tail(fed))) =>
        /\ steps = <<[kind |-> "resync", n |-> 1],
                     [kind |-> "frame", n |-> Len(fed) - 1]>>
        /\ calls = <<[cb |-> on_frame_received[1], frame |-> Expected(Tail(fed))]>>
        /\ buffer = <<>>

\* 0x7F and the test frame were read: one resync, one frame
C6_Witness ==
    /\ fed = <<127>> \o TestFrame
    /\ Len(steps) = 2
    /\ steps[1].kind = "resync"
    /\ Len(calls) = 1
    /\ calls[1].frame.dlc = 8

(* C7: a data frame span of L+5 bytes whose byte at offset L+4 is not 0x55  *)
(* dispatches nothing, is removed whole (L+5 bytes in one step, no rescan), *)
(* and decoding continues with the bytes that follow.                       *)
C7_BadEndSpanDiscarded ==
    StartsWithBadSpan(fed) =>
        LET n == (fed[2] - 192) + 5
            rest == ProcessBuffer(DropFirst(fed, n), on_frame_received)
        IN  /\ Len(steps) >= 1
            /\ steps[1] = [kind |-> "badend", n |-> n]
            /\ calls = rest.calls
            /\ buffer = rest.buffer
            /\ Tail(steps) = rest.steps

\* a span with a bad end byte was dropped and the frame after it dispatched
C7_Witness ==
    /\ StartsWithBadSpan(fed)
    /\ fed[2] = 200
    /\ Len(fed) = 13 + 5
    /\ Len(steps) = 2
    /\ steps[1].n = 13
    /\ Len(calls) = 1
    /\ calls[1].frame = Expected(ShortFrame)

(* C8: a buffer that starts with 0xAA 0x55: with at least 20 bytes, exactly *)
(* 20 are removed, nothing is dispatched for them whatever the 18 bytes     *)
(* are, and decoding continues with the remainder; with fewer than 20 the   *)
(* pass stops and keeps them all.                                           *)
C8_CommandFrameSkipped ==
    (Len(fed) >= 2 /\ fed[1] = 170 /\ fed[2] = 85) =>
        IF Len(fed) >= 20
        THEN LET rest == ProcessBuffer(DropFirst(fed, 20), on_frame_received)
             IN  /\ Len(steps) >= 1
                 /\ steps[1] = [kind |-> "command", n |-> 20]
                 /\ calls = rest.calls
                 /\ buffer = rest.buffer
                 /\ Tail(steps) = rest.steps
        ELSE /\ buffer = fed
             /\ calls = <<>>
             /\ steps = <<>>

\* a command frame was dropped and the data frame after it dispatched
C8_Witness ==
    /\ Len(fed) = 25
    /\ fed[1] = 170 /\ fed[2] = 85
    /\ fed[3] = 85
    /\ Len(steps) = 2
    /\ steps[1] = [kind |-> "command", n |-> 20]
    /\ Len(calls) = 1
    /\ buffer = <<>>

(* C9: each _init_adapter call writes exactly one command of 20 bytes:      *)
(* AA 55 12 <speed_code> 01, nine 00, 01, four 00, <checksum>, with         *)
(* checksum = (sum of the bytes at indices 2..18) mod 256.                  *)
C9_InitCommandLayout ==
    /\ Len(ser_written) = Len(init_speeds)
    /\ \A k \in 1..Len(ser_written) :
          LET w == ser_written[k]
          IN  /\ Len(w) = 20
              /\ w[1] = 170 /\ w[2] = 85 /\ w[3] = 18
              /\ w[4] \in 1..12
              /\ w[5] = 1
              /\ \A j \in 6..14 : w[j] = 0
              /\ w[15] = 1
              /\ \A j \in 16..19 : w[j] = 0
              /\ w[20] = SumSeq(SubSeq(w, 3, 19)) % 256

\* the command for 500000 was written: code 0x03, checksum 0x17
C9_Witness ==
    /\ Len(ser_written) >= 1
    /\ init_speeds[1] = 500000
    /\ ser_written[1][4] = 3
    /\ ser_written[1][20] = 23

\* the 12 mapped speeds and their code bytes
C10_Table ==
    {<<1000000, 1>>, <<800000, 2>>, <<500000, 3>>, <<400000, 4>>,
     <<250000, 5>>, <<200000, 6>>, <<125000, 7>>, <<100000, 8>>,
     <<50000, 9>>, <<20000, 10>>, <<10000, 11>>, <<5000, 12>>}

(* C10: for a speed that is not one of the 12 mapped speeds the command is  *)
(* written all the same, carries the code byte 0x03 and is byte for byte    *)
(* the command written for 500000; for a mapped speed the code byte is the  *)
(* one of the mapping.                                                      *)
C10_UnmappedSpeedFallsBack ==
    /\ Len(ser_written) = Len(init_speeds)
    /\ \A k \in 1..Len(ser_written) :
          LET w == ser_written[k]
              sp == init_speeds[k]
          IN  /\ (\A e \in C10_Table : sp # e[1]) =>
                    /\ w[4] = 3
                    /\ \A j \in 1..Len(ser_written) :
                          init_speeds[j] = 500000 => ser_written[j] = w
              /\ \A e \in C10_Table : sp = e[1] => w[4] = e[2]

\* commands for 500000 and for the unmapped 777 were written and are equal
C10_Witness ==
    /\ init_speeds = <<500000, 777>>
    /\ Len(ser_written) = 2
    /\ ser_written[1] = ser_written[2]

-----------------------------------------------------------------------------
(* Session: connect(), disconnect(), add_callback and the loop threads     *)

\* the history variables of the decoder specification, not kept by a session
decode_hist == <<split, steps>>

\* n data frames AA C0 <0x22+k> 01 55, k = n..1: ids 0x0122+n down to 0x0123
RECURSIVE FrameTrain(_)
FrameTrain(n) ==
    IF n = 0 THEN <<>>
    ELSE DataFrame(192, 34 + n, 1, <<>>, 85) \o FrameTrain(n - 1)

\* the line of a session whose lifecycle is observed: silent, or one frame
SessionStreams == {<<>>, ShortFrame}

\* the line of a session whose dispatch is observed: up to MaxFrames frames
DispatchStreams == {FrameTrain(n) : n \in 1..MaxFrames}

\* callbacks a caller may register; registering one twice is allowed
Callbacks == {1, 2}

InitLifecycle ==
    /\ InitSession
    /\ can_speed = 500000
    /\ wire \in SessionStreams

InitDispatch ==
    /\ InitSession
    /\ can_speed = 500000
    /\ wire \in DispatchStreams

\* a frame's worth of bytes reaches the open port
ArriveChunk ==
    /\ wire # <<>>
    /\ opened # {}
    /\ ser_in' = ser_in \o TakeFirst(wire, Len(ShortFrame))
    /\ wire' = DropFirst(wire, Len(ShortFrame))
    /\ UNCHANGED <<can_speed, ser_written, init_speeds, buffer, on_frame_received,
                   calls, fed, decode_hist, sess>>

\* faulty variant: the command is written twice
SerWriteTwice(log, cmd) == log \o <<cmd, cmd>>

\* self.ser.write(cmd)
SerWrite(log, cmd) == Append(log, cmd)

\* the record of a connect() call that has just begun
ConnBegun(outcome) ==
    [pre     |-> <<running, read_thread, ser, opened>>,
     w0      |-> Len(ser_written),
     ws      |-> 0,
     w1      |-> 0,
     outcome |-> outcome]

\* the loop threads that hold handle h for a call on it (lines 82, 87, 88)
Holders(h) == {t \in Threads : tloc[t].h = h}

\* the open ports once line 40 has made self.ser the new object: a
\* serial.Serial is an io.RawIOBase, which closes itself when its last
\* reference goes, so the object self.ser named until now is closed unless a
\* loop thread holds it
Rebound(new) == (IF Holders(ser) = {} THEN opened \ {ser} ELSE opened) \cup {new}

\* the open ports once thread t has let go of the handle it held (the call on
\* it returned or raised): the object is closed if self.ser is another object
\* by now and no other thread holds it
LetGo(t) ==
    IF tloc[t].h # ser /\ Holders(tloc[t].h) \subseteq {t}
    THEN opened \ {tloc[t].h}
    ELSE opened

\* connect(), line 40: serial.Serial(...) opens the port; self.ser = the new
\* object, and the object it replaces loses the reference self.ser was
ConnectOpen(limit) ==
    /\ cpc = "idle"
    /\ Len(conn) < limit
    /\ ser' = Len(conn) + 1
    /\ opened' = Rebound(Len(conn) + 1)
    /\ conn' = Append(conn, ConnBegun("pending"))
    /\ cpc' = "c_init"
    /\ last' = "busy"
    /\ UNCHANGED <<can_speed, ser_written, init_speeds, wire, ser_in, buffer,
                   on_frame_received, calls, fed, decode_hist, running, read_thread,
                   tpc, tloc, disc, err, late, dlog, call_d, reg_at>>

\* connect(), line 40 raises: except Exception: return False
ConnectOpenFails(limit) ==
    /\ cpc = "idle"
    /\ Len(conn) < limit
    /\ conn' = Append(conn, ConnBegun("open_failed"))
    /\ last' = "connect_failed"
    /\ UNCHANGED <<can_speed, ser_written, init_speeds, wire, ser_in, buffer,
                   on_frame_received, calls, fed, decode_hist, ser, opened, running,
                   read_thread, tpc, tloc, cpc, disc, err, late, dlog, call_d, reg_at>>

\* connect(), line 41: self._init_adapter() writes the init command
ConnectInit ==
    /\ cpc = "c_init"
    /\ ser_written' = SerWrite(ser_written, InitCommand(can_speed))
    /\ init_speeds' = Append(init_speeds, can_speed)
    /\ cpc' = "c_run"
    /\ UNCHANGED <<can_speed, wire, ser_in, buffer, on_frame_received, calls, fed,
                   decode_hist, ser, opened, running, read_thread, tpc, tloc, conn,
                   last, disc, err, late, dlog, call_d, reg_at>>

\* connect(), line 41 raises in self.ser.write: except Exception: return False
ConnectInitFails ==
    /\ cpc = "c_init"
    /\ conn' = [conn EXCEPT ![Len(conn)].outcome = "init_failed"]
    /\ cpc' = "idle"
    /\ last' = "connect_failed"
    /\ UNCHANGED <<can_speed, ser_written, init_speeds, wire, ser_in, buffer,
                   on_frame_received, calls, fed, decode_hist, ser, opened, running,
                   read_thread, tpc, tloc, disc, err, late, dlog, call_d, reg_at>>

\* connect(), line 42: self.running = True
ConnectRun ==
    /\ cpc = "c_run"
    /\ running' = TRUE
    /\ cpc' = "c_thread"
    /\ UNCHANGED <<can_speed, ser_written, init_speeds, wire, ser_in, buffer,
                   on_frame_received, calls, fed, decode_hist, ser, opened,
                   read_thread, tpc, tloc, conn, last, disc, err, late, dlog,
                   call_d, reg_at>>

\* connect(), line 43: self.read_thread = threading.Thread(...), not yet started
ConnectThread ==
    /\ cpc = "c_thread"
    /\ read_thread' = Len(conn)
    /\ cpc' = "c_start"
    /\ UNCHANGED <<can_speed, ser_written, init_speeds, wire, ser_in, buffer,
                   on_frame_received, calls, fed, decode_hist, ser, opened, running,
                   tpc, tloc, conn, last, disc, err, late, dlog, call_d, reg_at>>

\* connect(), line 44: self.read_thread.start(); the thread runs from here on,
\* connect() has not returned yet
ConnectStart ==
    /\ cpc = "c_start"
    /\ tpc' = [tpc EXCEPT ![read_thread] = "start"]
    /\ conn' = [conn EXCEPT ![Len(conn)].ws = Len(ser_written)]
    /\ cpc' = "c_ret"
    /\ UNCHANGED <<can_speed, ser_written, init_speeds, wire, ser_in, buffer,
                   on_frame_received, calls, fed, decode_hist, ser, opened, running,
                   read_thread, tloc, last, disc, err, late, dlog, call_d, reg_at>>

\* connect(), line 44 raises (no thread can be started): except Exception:
\* return False; running stays True and read_thread stays the unstarted Thread
ConnectStartFails ==
    /\ cpc = "c_start"
    /\ conn' = [conn EXCEPT ![Len(conn)].outcome = "start_failed"]
    /\ cpc' = "idle"
    /\ last' = "connect_failed"
    /\ UNCHANGED <<can_speed, ser_written, init_speeds, wire, ser_in, buffer,
                   on_frame_received, calls, fed, decode_hist, ser, opened, running,
                   read_thread, tpc, tloc, disc, err, late, dlog, call_d, reg_at>>

\* connect(), line 45: return True
ConnectReturn ==
    /\ cpc = "c_ret"
    /\ conn' = [conn EXCEPT ![Len(conn)].outcome = "ok",
                            ![Len(conn)].w1 = Len(ser_written)]
    /\ cpc' = "idle"
    /\ last' = "connect_ok"
    /\ UNCHANGED <<can_speed, ser_written, init_speeds, wire, ser_in, buffer,
                   on_frame_received, calls, fed, decode_hist, ser, opened, running,
                   read_thread, tpc, tloc, disc, err, late, dlog, call_d, reg_at>>

\* disconnect(), line 51: self.running = False
DisconnectStop ==
    /\ cpc = "idle"
    /\ running' = FALSE
    /\ cpc' = "d_join"
    /\ last' = "busy"
    /\ disc' = [joined |-> FALSE, closed |-> FALSE, held |-> ser # 0,
                 live   |-> (read_thread # 0
                             /\ tpc[read_thread] \notin {"none", "done", "dead"})]
    /\ UNCHANGED <<can_speed, ser_written, init_speeds, wire, ser_in, buffer,
                   on_frame_received, calls, fed, decode_hist, ser, opened,
                   read_thread, tpc, tloc, conn, err, late, dlog, call_d, reg_at>>

\* faulty variant: join() is called whether or not a thread was created
JoinNeededAlways(rt) == TRUE

\* disconnect(), line 52: if self.read_thread
JoinNeeded(rt) == rt # 0

\* disconnect(), lines 52-53: self.read_thread.join() returns once the thread ended;
\* calling join on None, or on a Thread that was never started, raises
DisconnectJoin ==
    /\ cpc = "d_join"
    /\ IF JoinNeeded(read_thread)
       THEN IF read_thread = 0 \/ tpc[read_thread] = "none"
            THEN /\ err' = TRUE
                 /\ cpc' = "idle"
                 /\ last' = "disconnect_raised"
                 /\ disc' = disc
            ELSE /\ tpc[read_thread] \in {"done", "dead"}
                 /\ disc' = [disc EXCEPT !.joined = TRUE]
                 /\ cpc' = "d_close"
                 /\ UNCHANGED <<err, last>>
       ELSE /\ cpc' = "d_close"
            /\ UNCHANGED <<err, last, disc>>
    /\ UNCHANGED <<can_speed, ser_written, init_speeds, wire, ser_in, buffer,
                   on_frame_received, calls, fed, decode_hist, ser, opened, running,
                   read_thread, tpc, tloc, conn, late, dlog, call_d, reg_at>>

\* disconnect(), lines 54-55: if self.ser: self.ser.close()
DisconnectClose ==
    /\ cpc = "d_close"
    /\ IF ser # 0
       THEN /\ opened' = opened \ {ser}
            /\ disc' = [disc EXCEPT !.closed = TRUE]
       ELSE UNCHANGED <<opened, disc>>
    /\ cpc' = "idle"
    /\ last' = "disconnect"
    /\ UNCHANGED <<can_speed, ser_written, init_speeds, wire, ser_in, buffer,
                   on_frame_received, calls, fed, decode_hist, ser, running,
                   read_thread, tpc, tloc, conn, err, late, dlog, call_d, reg_at>>

\* add_callback: self.on_frame_received.append(callback)
AddCallback(cbs, limit) ==
    \E c \in cbs :
        /\ cpc = "idle"
        /\ Len(on_frame_received) < limit
        /\ on_frame_received' = Append(on_frame_received, c)
        /\ reg_at' = Append(reg_at, Len(dlog))
        /\ UNCHANGED <<can_speed, ser_written, init_speeds, wire, ser_in, buffer,
                       calls, fed, decode_hist, ser, opened, running, read_thread,
                       tpc, tloc, cpc, conn, last, disc, err, late, dlog, call_d>>

-----------------------------------------------------------------------------
(* The loop thread t: _read_loop, statement by statement                   *)

\* a loop step is taken although the transport is closed, or although
\* disconnect() has returned and no connect() was called since
OnClosedSession == ser \notin opened \/ (last = "disconnect" /\ cpc = "idle")

\* _read_loop, line 79: self.buffer = bytearray()
LoopStart(t) ==
    /\ tpc[t] = "start"
    /\ buffer' = <<>>
    /\ tpc' = [tpc EXCEPT ![t] = "while"]
    /\ UNCHANGED <<can_speed, ser_written, init_speeds, wire, ser_in,
                   on_frame_received, calls, fed, decode_hist, ser, opened, running,
                   read_thread, tloc, cpc, conn, last, disc, err, late, dlog,
                   call_d, reg_at>>

\* faulty variant: the loop does not look at the flag
LoopContinuesAlways(flag) == TRUE

\* _read_loop, line 80: while self.running
LoopContinues(flag) == flag

LoopWhile(t) ==
    /\ tpc[t] = "while"
    /\ tpc' = [tpc EXCEPT ![t] = IF LoopContinues(running) THEN "query" ELSE "done"]
    /\ UNCHANGED <<can_speed, ser_written, init_speeds, wire, ser_in, buffer,
                   on_frame_received, calls, fed, decode_hist, ser, opened, running,
                   read_thread, tloc, cpc, conn, last, disc, err, late, dlog,
                   call_d, reg_at>>

\* where a thread stands once it has loaded self.ser at the line it stood at
Holding(at) ==
    CASE at = "query"      -> "query_on"
      [] at = "read"       -> "count"
      [] at = "idle_query" -> "idle_on"

\* lines 82, 87, 88: the expression self.ser is evaluated; the thread holds
\* the handle it got while it asks it (in_waiting, read), whatever self.ser
\* is assigned meanwhile.  Line 88 evaluates self.ser for the call and for
\* the argument with nothing in between: one handle
LoopHandle(t) ==
    /\ tpc[t] \in {"query", "read", "idle_query"}
    /\ tloc' = [tloc EXCEPT ![t].h = ser]
    /\ tpc' = [tpc EXCEPT ![t] = Holding(tpc[t])]
    /\ UNCHANGED <<can_speed, ser_written, init_speeds, wire, ser_in, buffer,
                   on_frame_received, calls, fed, decode_hist, ser, opened, running,
                   read_thread, cpc, conn, last, disc, err, late, dlog, call_d,
                   reg_at>>

\* line 87: self.ser.in_waiting > 0
BytesPending(n) == n > 0

\* _read_loop_iteration, line 87: if <handle>.in_waiting > 0; the handle is let
\* go once it has answered
LoopQuery(t) ==
    /\ tpc[t] = "query_on"
    /\ tloc[t].h \in opened
    /\ tpc' = [tpc EXCEPT ![t] = IF BytesPending(Len(ser_in)) THEN "read" ELSE "l97"]
    /\ tloc' = [tloc EXCEPT ![t].h = 0]
    /\ opened' = LetGo(t)
    /\ late' = (late \/ OnClosedSession)
    /\ UNCHANGED <<can_speed, ser_written, init_speeds, wire, ser_in, buffer,
                   on_frame_received, calls, fed, decode_hist, ser, running,
                   read_thread, cpc, conn, last, disc, err, dlog, call_d, reg_at>>

\* _read_loop_iteration, line 88, data = self.ser.read(self.ser.in_waiting):
\* the argument, in_waiting of the handle held; the thread goes on holding
\* the handle until the read is done
LoopReadCount(t) ==
    /\ tpc[t] = "count"
    /\ tloc[t].h \in opened
    /\ tloc' = [tloc EXCEPT ![t].n = Len(ser_in)]
    /\ tpc' = [tpc EXCEPT ![t] = "take"]
    /\ late' = (late \/ OnClosedSession)
    /\ UNCHANGED <<can_speed, ser_written, init_speeds, wire, ser_in, buffer,
                   on_frame_received, calls, fed, decode_hist, ser, opened, running,
                   read_thread, cpc, conn, last, disc, err, dlog, call_d, reg_at>>

\* _read_loop_iteration, line 88: read(n) on the handle held takes up to n
\* bytes off the port (fewer when another reader took them: the read times
\* out); self.ser may be another handle by now, and the handle is let go once
\* the read has returned
LoopRead(t) ==
    /\ tpc[t] = "take"
    /\ tloc[t].h \in opened
    /\ LET k == IF tloc[t].n < Len(ser_in) THEN tloc[t].n ELSE Len(ser_in)
       IN  /\ tloc' = [tloc EXCEPT ![t].data = TakeFirst(ser_in, k),
                                   ![t].n = 0, ![t].h = 0]
           /\ fed' = fed \o TakeFirst(ser_in, k)
           /\ ser_in' = DropFirst(ser_in, k)
    /\ tpc' = [tpc EXCEPT ![t] = "extend"]
    /\ opened' = LetGo(t)
    /\ late' = (late \/ OnClosedSession)
    /\ UNCHANGED <<can_speed, ser_written, init_speeds, wire, buffer,
                   on_frame_received, calls, decode_hist, ser, running,
                   read_thread, cpc, conn, last, disc, err, dlog, call_d, reg_at>>

\* _read_loop_iteration, line 89: self.buffer.extend(data)
LoopExtend(t) ==
    /\ tpc[t] = "extend"
    /\ buffer' = Extend(buffer, tloc[t].data)
    /\ tloc' = [tloc EXCEPT ![t].data = <<>>]
    /\ tpc' = [tpc EXCEPT ![t] = "l97"]
    /\ UNCHANGED <<can_speed, ser_written, init_speeds, wire, ser_in,
                   on_frame_received, calls, fed, decode_hist, ser, opened, running,
                   read_thread, cpc, conn, last, disc, err, late, dlog, call_d,
                   reg_at>>

\* the availability query or the read raises (the transport fails, or the
\* handle held is closed): the exception ends the thread, nothing catches it,
\* and the thread's reference to the handle goes with it
LoopFault(t) ==
    /\ tpc[t] \in {"query_on", "count", "take", "idle_on"}
    /\ tpc' = [tpc EXCEPT ![t] = "dead"]
    /\ tloc' = [tloc EXCEPT ![t] = NoLocals]
    /\ opened' = LetGo(t)
    /\ late' = (late \/ OnClosedSession)
    /\ UNCHANGED <<can_speed, ser_written, init_speeds, wire, ser_in, buffer,
                   on_frame_received, calls, fed, decode_hist, ser, running,
                   read_thread, cpc, conn, last, disc, err, dlog, call_d, reg_at>>

-----------------------------------------------------------------------------
(* _process_buffer run by a loop thread, line by line.  Every line reads   *)
(* self.buffer anew and no lock is held between two lines, so another loop *)
(* may empty or shorten the buffer between a length test and the index or  *)
(* slice that relies on it; an index out of range raises IndexError, which *)
(* nothing catches.                                                        *)

\* where a line leaves the thread (a line of the pass, "out": the while loop
\* is left, "raise": IndexError), and the buffer and the locals it leaves
Goes(at, buf, loc) == [at |-> at, buffer |-> buf, loc |-> loc]

\* s[:n], a slice never raises
SliceTo(s, n) == SubSeq(s, 1, IF n < Len(s) THEN n ELSE Len(s))

\* frame_len = dlc + 5
FrameLen(dlc) == dlc + HEADER_LEN

\* line 97: while len(self.buffer) > 0
Line97(buf, loc) == Goes(IF Len(buf) > 0 THEN "l99" ELSE "out", buf, loc)

\* line 99: if self.buffer[0] != 0xAA
Line99(buf, loc) ==
    IF Len(buf) < 1 THEN Goes("raise", buf, loc)
    ELSE Goes(IF buf[1] # START_BYTE THEN "l100" ELSE "l103", buf, loc)

\* lines 100-101: self.buffer.pop(0); continue
Line100(buf, loc) ==
    IF Len(buf) < 1 THEN Goes("raise", buf, loc)
    ELSE Goes("l97", DropFirst(buf, ResyncStep(buf).n), loc)

\* lines 103-104: if len(self.buffer) < 2: break
Line103(buf, loc) == Goes(IF Len(buf) < 2 THEN "out" ELSE "l107", buf, loc)

\* line 107: if self.buffer[1] == 0x55
Line107(buf, loc) ==
    IF Len(buf) < 2 THEN Goes("raise", buf, loc)
    ELSE Goes(IF buf[2] = END_BYTE THEN "l108" ELSE "l113", buf, loc)

\* lines 108, 110-111: if len(self.buffer) >= 20, else break
Line108(buf, loc) ==
    Goes(IF Len(buf) >= CMD_FRAME_LEN THEN "l109" ELSE "out", buf, loc)

\* line 109: self.buffer = self.buffer[20:]
Line109(buf, loc) == Goes("l97", DropFirst(buf, CMD_FRAME_LEN), loc)

\* line 113: elif (self.buffer[1] >> 4) == 0x0C
Line113(buf, loc) ==
    IF Len(buf) < 2 THEN Goes("raise", buf, loc)
    ELSE Goes(IF IsDataType(buf[2]) THEN "l114" ELSE "l136", buf, loc)

\* lines 114-115: dlc = self.buffer[1] & 0x0F; frame_len = dlc + 5
Line114(buf, loc) ==
    IF Len(buf) < 2 THEN Goes("raise", buf, loc)
    ELSE Goes("l116", buf, [loc EXCEPT !.dlc = buf[2] % 16])

\* lines 116, 132-133: if len(self.buffer) >= frame_len, else break
Line116(buf, loc) ==
    IF Len(buf) >= FrameLen(loc.dlc)
    THEN Goes("l117", buf, loc)
    ELSE Goes("out", buf, [loc EXCEPT !.dlc = 0])

\* line 117: frame_data = self.buffer[:frame_len]
Line117(buf, loc) ==
    Goes("l118", buf, [loc EXCEPT !.frame_data = SliceTo(buf, FrameLen(loc.dlc))])

\* line 131: self.buffer = self.buffer[frame_len:]; dlc and frame_data are
\* assigned anew (lines 114, 117) before they are read again
Line131(buf, loc) ==
    Goes("l97", DropFirst(buf, FrameLen(loc.dlc)),
         [loc EXCEPT !.dlc = 0, !.frame_data = <<>>])

\* line 136: self.buffer.pop(0)
Line136(buf, loc) ==
    IF Len(buf) < 1 THEN Goes("raise", buf, loc)
    ELSE Goes("l97", DropFirst(buf, SkipStep(buf).n), loc)

\* the lines of _process_buffer that read or assign self.buffer
BufferLines == {"l97", "l99", "l100", "l103", "l107", "l108", "l109", "l113",
                "l114", "l116", "l117", "l131", "l136"}

\* the line the thread stands at, run on the buffer as it is now
PassLine(at, buf, loc) ==
    CASE at = "l97"  -> Line97(buf, loc)
      [] at = "l99"  -> Line99(buf, loc)
      [] at = "l100" -> Line100(buf, loc)
      [] at = "l103" -> Line103(buf, loc)
      [] at = "l107" -> Line107(buf, loc)
      [] at = "l108" -> Line108(buf, loc)
      [] at = "l109" -> Line109(buf, loc)
      [] at = "l113" -> Line113(buf, loc)
      [] at = "l114" -> Line114(buf, loc)
      [] at = "l116" -> Line116(buf, loc)
      [] at = "l117" -> Line117(buf, loc)
      [] at = "l131" -> Line131(buf, loc)
      [] at = "l136" -> Line136(buf, loc)

\* where the thread stands after a line: leaving the while loop returns to
\* line 82 of _read_loop, IndexError ends the thread
After(at) ==
    CASE at = "out"   -> "idle_query"
      [] at = "raise" -> "dead"
      [] OTHER        -> at

\* _process_buffer, lines 97-117, 131, 136: the thread runs the line it stands at
LoopProcess(t) ==
    /\ tpc[t] \in BufferLines
    /\ LET r == PassLine(tpc[t], buffer, tloc[t])
       IN  /\ buffer' = r.buffer
           /\ tloc' = [tloc EXCEPT ![t] = IF r.at = "raise" THEN NoLocals ELSE r.loc]
           /\ tpc' = [tpc EXCEPT ![t] = After(r.at)]
    /\ UNCHANGED <<can_speed, ser_written, init_speeds, wire, ser_in,
                   on_frame_received, calls, fed, decode_hist, ser, opened, running,
                   read_thread, cpc, conn, last, disc, err, late, dlog, call_d,
                   reg_at>>

\* CANFrame(id, dlc, data, is_extended) of lines 119-127, from the locals
\* frame_data and dlc
FrameFrom(frame_data, dlc) ==
    [id          |-> frame_data[3] + frame_data[4] * 256,
     dlc         |-> dlc,
     data        |-> SubSeq(frame_data, 5, Len(SliceTo(frame_data, 4 + dlc))),
     is_extended |-> (frame_data[2] \div EXT_BIT) % 2 = 1]

\* _process_buffer, lines 118-127, on the locals only: frame_data[-1] raises on
\* an empty slice, frame_data[2] and frame_data[3] on one shorter than 4 bytes;
\* a span not ending in 0x55 is dropped at line 131, a frame starts a dispatch
LoopFrame(t) ==
    /\ tpc[t] = "l118"
    /\ LET fd == tloc[t].frame_data
       IN  IF fd = <<>> \/ (fd[Len(fd)] = END_BYTE /\ Len(fd) < 4)
           THEN /\ tpc' = [tpc EXCEPT ![t] = "dead"]
                /\ tloc' = [tloc EXCEPT ![t] = NoLocals]
                /\ UNCHANGED dlog
           ELSE IF fd[Len(fd)] # END_BYTE
           THEN /\ tpc' = [tpc EXCEPT ![t] = "l131"]
                /\ UNCHANGED <<tloc, dlog>>
           ELSE /\ dlog' = Append(dlog, [frame |-> FrameFrom(fd, tloc[t].dlc),
                                         n     |-> FrameLen(tloc[t].dlc),
                                         reg0  |-> on_frame_received,
                                         done  |-> FALSE])
                /\ tloc' = [tloc EXCEPT ![t].d = Len(dlog) + 1, ![t].ci = 1]
                /\ tpc' = [tpc EXCEPT ![t] = "call"]
    /\ UNCHANGED <<can_speed, ser_written, init_speeds, wire, ser_in, buffer,
                   on_frame_received, calls, fed, decode_hist, ser, opened, running,
                   read_thread, cpc, conn, last, disc, err, late, call_d, reg_at>>

\* the lines of a pass run by one thread alone, from line `at` up to the
\* next test of line 97, the end of the loop, an IndexError or line 118
RECURSIVE RunLines(_, _, _)
RunLines(at, buf, loc) ==
    LET r == PassLine(at, buf, loc)
    IN  IF r.at \in {"out", "raise", "l118", "l97"} THEN r
        ELSE RunLines(r.at, r.buffer, r.loc)

\* on buffer buf the lines, run without another thread in between, do what
\* DecodeStep says the pass does
LinesAgree(buf) ==
    LET st == DecodeStep(buf)
        r  == RunLines("l97", buf, NoLocals)
    IN  CASE st.kind = "stop" -> r.at = "out" /\ r.buffer = buf
          [] st.kind \in {"resync", "skip", "command"} ->
                r.at = "l97" /\ r.buffer = DropFirst(buf, st.n)
          [] st.kind \in {"frame", "badend"} ->
                /\ r.at = "l118"
                /\ r.loc.frame_data = TakeFirst(buf, st.n)
                /\ (st.kind = "frame") = (r.loc.frame_data[st.n] = END_BYTE)
                /\ FrameFrom(r.loc.frame_data, r.loc.dlc) = FrameOf(r.loc.frame_data)
                /\ Line131(buf, r.loc).buffer = DropFirst(buf, st.n)

\* the two renderings of _process_buffer agree on every stream and on each of
\* its suffixes (an invariant of SpecDecode, whose streams start on the wire)
LinesAgreeWithDecodeStep ==
    \A i \in 0..Len(wire) : LinesAgree(DropFirst(wire, i))

\* faulty variant: the callbacks are taken from the end of the list
CallbackAtReversed(cbs, ci) == cbs[Len(cbs) + 1 - ci]

\* the ci-th element the for loop of line 129 yields
CallbackAt(cbs, ci) == cbs[ci]

\* _process_buffer, lines 129-130: the for loop over the live list
\* self.on_frame_received calls the next callback, or is exhausted
LoopCall(t) ==
    /\ tpc[t] = "call"
    /\ IF tloc[t].ci <= Len(on_frame_received)
       THEN /\ calls' = Append(calls, [cb    |-> CallbackAt(on_frame_received, tloc[t].ci),
                                       frame |-> dlog[tloc[t].d].frame])
            /\ call_d' = Append(call_d, tloc[t].d)
            /\ tloc' = [tloc EXCEPT ![t].ci = @ + 1]
            /\ late' = (late \/ OnClosedSession)
            /\ UNCHANGED <<tpc, dlog>>
       ELSE /\ dlog' = [dlog EXCEPT ![tloc[t].d].done = TRUE]
            /\ tloc' = [tloc EXCEPT ![t].d = 0, ![t].ci = 0]
            /\ tpc' = [tpc EXCEPT ![t] = "l131"]
            /\ UNCHANGED <<calls, call_d, late>>
    /\ UNCHANGED <<can_speed, ser_written, init_speeds, wire, ser_in, buffer,
                   on_frame_received, fed, decode_hist, ser, opened, running,
                   read_thread, cpc, conn, last, disc, err, reg_at>>

\* faulty variant: the loop sleeps whatever the query reports
NothingPendingAlways(n) == TRUE

\* line 82: self.ser.in_waiting == 0
NothingPending(n) == n = 0

\* _read_loop, line 82: if <handle>.in_waiting == 0; the handle is let go once
\* it has answered
LoopIdleQuery(t) ==
    /\ tpc[t] = "idle_on"
    /\ tloc[t].h \in opened
    /\ tpc' = [tpc EXCEPT ![t] = IF NothingPending(Len(ser_in)) THEN "sleep" ELSE "while"]
    /\ tloc' = [tloc EXCEPT ![t].h = 0]
    /\ opened' = LetGo(t)
    /\ late' = (late \/ OnClosedSession)
    /\ UNCHANGED <<can_speed, ser_written, init_speeds, wire, ser_in, buffer,
                   on_frame_received, calls, fed, decode_hist, ser, running,
                   read_thread, cpc, conn, last, disc, err, dlog, call_d, reg_at>>

\* _read_loop, line 83: time.sleep(0.001)
LoopSleep(t) ==
    /\ tpc[t] = "sleep"
    /\ tpc' = [tpc EXCEPT ![t] = "while"]
    /\ UNCHANGED <<can_speed, ser_written, init_speeds, wire, ser_in, buffer,
                   on_frame_received, calls, fed, decode_hist, ser, opened, running,
                   read_thread, tloc, cpc, conn, last, disc, err, late, dlog,
                   call_d, reg_at>>

\* a step of loop thread t on which the transport does not fail
LoopStep(t) ==
    \/ LoopStart(t)
    \/ LoopWhile(t)
    \/ LoopHandle(t)
    \/ LoopQuery(t)
    \/ LoopReadCount(t)
    \/ LoopRead(t)
    \/ LoopExtend(t)
    \/ LoopProcess(t)
    \/ LoopFrame(t)
    \/ LoopCall(t)
    \/ LoopIdleQuery(t)
    \/ LoopSleep(t)

-----------------------------------------------------------------------------
(* A session driven by any caller: connect() and disconnect() in any order, *)
(* one callback registered at any time; the transport may fail at any       *)
(* access and a thread may fail to start                                    *)

NextSession ==
    \/ ArriveChunk
    \/ ConnectOpen(MaxConnects)
    \/ ConnectOpenFails(MaxConnects)
    \/ ConnectInit
    \/ ConnectInitFails
    \/ ConnectRun
    \/ ConnectThread
    \/ ConnectStart
    \/ ConnectStartFails
    \/ ConnectReturn
    \/ AddCallback({1}, 1)
    \/ DisconnectStop
    \/ DisconnectJoin
    \/ DisconnectClose
    \/ \E t \in Threads : LoopStep(t)
    \/ \E t \in Threads : LoopFault(t)

SpecSession == InitLifecycle /\ [][NextSession]_vars

\* the same session with at most MaxReconnects connect() calls
NextStop ==
    \/ ArriveChunk
    \/ ConnectOpen(MaxReconnects)
    \/ ConnectOpenFails(MaxReconnects)
    \/ ConnectInit
    \/ ConnectInitFails
    \/ ConnectRun
    \/ ConnectThread
    \/ ConnectStart
    \/ ConnectStartFails
    \/ ConnectReturn
    \/ AddCallback({1}, 1)
    \/ DisconnectStop
    \/ DisconnectJoin
    \/ DisconnectClose
    \/ \E t \in Threads : LoopStep(t)
    \/ \E t \in Threads : LoopFault(t)

\* the scheduler runs every thread that can run; a caller inside disconnect()
\* goes on to its end
SpecSessionFair ==
    /\ InitLifecycle
    /\ [][NextStop]_vars
    /\ \A t \in Threads : WF_vars(LoopStep(t))
    /\ WF_vars(DisconnectJoin)
    /\ WF_vars(DisconnectClose)

-----------------------------------------------------------------------------
(* A session driven as the monitor drives it: one connect() per session     *)
(* object, callbacks registered while the loop runs                         *)

NextDispatch ==
    \/ ArriveChunk
    \/ ConnectOpen(1)
    \/ ConnectInit
    \/ ConnectRun
    \/ ConnectThread
    \/ ConnectStart
    \/ ConnectReturn
    \/ AddCallback(Callbacks, 1 + MaxCallbacks)
    \/ DisconnectStop
    \/ DisconnectJoin
    \/ DisconnectClose
    \/ \E t \in Threads : LoopStep(t)

SpecDispatch == InitDispatch /\ [][NextDispatch]_vars

-----------------------------------------------------------------------------
(* Properties of the session                                               *)

\* the loop threads that have been started and have not ended
LiveThreads == {t \in Threads : tpc[t] \notin {"none", "done", "dead"}}

\* connect() was never called, or every call failed at the open or at the
\* init write
NeverConnected ==
    \A k \in 1..Len(conn) : conn[k].outcome \in {"open_failed", "init_failed"}

(* C11: whenever connect() fails, at the open or at the init write, it      *)
(* returns False, no loop is started and the session retains nothing of the *)
(* attempt: running, read_thread and the transport handle are as before the *)
(* call, and no handle opened by the attempt is left open.                  *)
C11_FailedConnectRetainsNothing ==
    (last = "connect_failed"
        /\ conn[Len(conn)].outcome \in {"open_failed", "init_failed"}) =>
        /\ ~err
        /\ tpc[Len(conn)] = "none"
        /\ <<running, read_thread, ser, opened>> = conn[Len(conn)].pre

(* C12: on every successful connect() the init command is written exactly   *)
(* once, and before the loop thread is started: when a thread is started    *)
(* the log has grown by exactly that one command since the call, and it has *)
(* grown by no more when connect() returns True.                            *)
C12_InitWrittenOnceBeforeLoop ==
    /\ LET cmd == InitCommand(can_speed)
       IN  \A t \in Threads :
              tpc[t] # "none" =>
                  /\ t <= Len(conn)
                  /\ conn[t].ws = conn[t].w0 + 1
                  /\ Len(ser_written) >= conn[t].ws
                  /\ ser_written[conn[t].ws] = cmd
    /\ \A k \in 1..Len(conn) :
          conn[k].outcome = "ok" =>
              /\ tpc[k] # "none"
              /\ conn[k].w1 = conn[k].w0 + 1
    /\ cpc \in {"c_run", "c_thread", "c_start", "c_ret"} =>
          Len(ser_written) = conn[Len(conn)].w0 + 1

\* the first connect() succeeded, its loop is at its first availability query
C12_Witness ==
    /\ Len(conn) = 1
    /\ conn[1].outcome = "ok"
    /\ tpc[1] = "query_on"
    /\ Len(ser_written) = 1
    /\ fed = <<>>

(* C13: for any sequence of connect() and disconnect() calls on one         *)
(* session, at most one loop thread is running _read_loop at any time.      *)
C13_AtMostOneLoop == Cardinality(LiveThreads) <= 1

(* C14: disconnect() on a session whose connect() was never called or has   *)
(* failed raises nothing, leaves running false, joins no thread, and closes *)
(* a transport exactly if one was opened (by a connect() that failed at the *)
(* init write).                                                             *)
C14_DisconnectSafeUnconnected ==
    NeverConnected =>
        /\ ~err
        /\ last # "disconnect_raised"
        /\ last = "disconnect" =>
              /\ ~running
              /\ ~disc.joined
              /\ disc.closed = disc.held
              /\ disc.held = (\E k \in 1..Len(conn) : conn[k].outcome = "init_failed")
              /\ ser \notin opened

\* disconnect() returned after a connect() that failed at the init write:
\* the handle it had opened is closed, no thread was waited for
C14_Witness ==
    /\ last = "disconnect"
    /\ Len(conn) = 1
    /\ conn[1].outcome = "init_failed"
    /\ disc.closed
    /\ ~disc.joined
    /\ ser = 1
    /\ opened = {}

(* C15: no loop step (availability query, read, callback) is taken after    *)
(* disconnect() has closed the transport or has returned.                   *)
C15_NoLoopStepAfterClose == ~late

(* C19: when an availability query or a read has failed in the loop, the    *)
(* session is not left looking alive: no state has the session's loop dead  *)
(* and running still true.                                                  *)
C19_DeadLoopEndsSession ==
    (cpc = "idle" /\ read_thread # 0 /\ tpc[read_thread] = "dead") => ~running

\* disconnect() is waiting in join for a loop that connect() had started
JoiningStartedLoop ==
    cpc = "d_join" /\ read_thread # 0 /\ tpc[read_thread] # "none"

(* C20: after disconnect() on a connected session the loop it waits for     *)
(* leaves at its next evaluation of the while condition, without a further  *)
(* query or read; under fair scheduling that loop ends and disconnect()     *)
(* returns.                                                                 *)
C20_CooperativeStop ==
    /\ [][\A t \in Threads :
            (cpc = "d_join" /\ t = read_thread /\ tpc[t] = "while" /\ tpc'[t] # tpc[t])
                => tpc'[t] = "done"]_vars
    /\ JoiningStartedLoop
          ~> (read_thread # 0 /\ tpc[read_thread] \in {"done", "dead"})
    /\ JoiningStartedLoop ~> (cpc = "idle" /\ last = "disconnect")

\* disconnect() was called while the loop ran, waited for it and returned
C20_Witness ==
    /\ last = "disconnect"
    /\ disc.live
    /\ disc.joined
    /\ tpc[read_thread] = "done"
    /\ ~running
    /\ opened = {}

-----------------------------------------------------------------------------
(* Properties of the dispatch                                              *)

\* the observers invoked for dispatch d, in the order of their invocation
CallsOf(d) ==
    LET tagged == [i \in 1..Len(calls) |-> <<call_d[i], calls[i]>>]
        OfD(p) == p[1] = d
        mine   == SelectSeq(tagged, OfD)
    IN  [i \in 1..Len(mine) |-> mine[i][2]]

\* s is an initial segment of t
IsPrefix(s, t) == Len(s) <= Len(t) /\ \A i \in 1..Len(s) : s[i] = t[i]

(* C16: for each decoded frame every observer registered when its dispatch  *)
(* began is invoked with that frame, once per registration (a callable      *)
(* registered twice is invoked twice), in registration order, and the       *)
(* invocations for one frame are finished before the next frame's begin.    *)
C16_DispatchInRegistrationOrder ==
    /\ Len(call_d) = Len(calls)
    /\ \A i \in 1..Len(call_d) : \A j \in i..Len(call_d) : call_d[i] <= call_d[j]
    /\ \A d \in 1..Len(dlog) :
          LET cs == CallsOf(d)
          IN  /\ \A i \in 1..Len(cs) : cs[i].frame = dlog[d].frame
              /\ IsPrefix([i \in 1..Len(cs) |-> cs[i].cb], on_frame_received)
              /\ d < Len(dlog) => dlog[d].done
              /\ dlog[d].done =>
                    IsPrefix(dlog[d].reg0, [i \in 1..Len(cs) |-> cs[i].cb])

\* a frame has been dispatched to a list holding one observer twice and a
\* second one, and a later frame has been dispatched too
C16_Witness ==
    /\ Len(dlog) = 2
    /\ dlog[1].done /\ dlog[2].done
    /\ dlog[2].reg0 = <<1, 1, 2>>
    /\ Len(CallsOf(2)) = 3
    /\ dlog[1].frame # dlog[2].frame

(* C18: add_callback called while the loop runs: every dispatch has an      *)
(* observer that was registered before it began invoked exactly once, a     *)
(* dispatch that begins after add_callback returned invokes the new         *)
(* observer, and a dispatch that began before add_callback was called does  *)
(* not invoke it.                                                           *)
C18_RegistrationTakesEffectNextDispatch ==
    \A d \in 1..Len(dlog) : \A j \in 1..Len(reg_at) :
        /\ (dlog[d].done /\ reg_at[j] < d) => Len(CallsOf(d)) >= j
        /\ reg_at[j] >= d => Len(CallsOf(d)) < j

-----------------------------------------------------------------------------
(* Order of dispatch                                                       *)

\* the places in the stream (first and last offset) of the spans that the
\* steps taken recognised as data frames, the steps starting after offset off
RECURSIVE FrameSpans(_, _)
FrameSpans(taken, off) ==
    IF taken = <<>>
    THEN <<>>
    ELSE LET st   == Head(taken)
             rest == FrameSpans(Tail(taken), off + st.n)
         IN  IF st.kind = "frame"
             THEN <<[from |-> off + 1, to |-> off + st.n]>> \o rest
             ELSE rest

(* C17: frames reach the observer in the order in which their terminator    *)
(* bytes occur in the stream: the i-th invocation carries the frame of the  *)
(* i-th recognised span, the spans end in 0x55 at strictly increasing       *)
(* offsets of the bytes read, whether the frames came in one read or in     *)
(* several.                                                                 *)
C17_FramesInStreamOrder ==
    LET spans == FrameSpans(steps, 0)
    IN  /\ Len(calls) = Len(spans)
        /\ \A i \in 1..Len(spans) :
              /\ spans[i].to <= Len(fed)
              /\ fed[spans[i].to] = 85
              /\ calls[i].frame = Expected(SubSeq(fed, spans[i].from, spans[i].to))
              /\ i < Len(spans) => spans[i].to < spans[i + 1].from

\* two different frames were read in one piece and dispatched, first the
\* test frame and then the short frame that follows it
C17_Witness ==
    /\ ~split
    /\ Len(calls) = 2
    /\ fed = TestFrame \o ShortFrame
    /\ calls[1].frame = Expected(TestFrame)
    /\ calls[2].frame = Expected(ShortFrame)
    /\ calls[1].frame # calls[2].frame

-----------------------------------------------------------------------------
(* Reads and sleeps of the loop                                            *)

(* C21: a loop comes to its read only from the availability query of line   *)
(* 87 taken while bytes were pending, bytes leave the transport only by     *)
(* the read of a loop that stands at it, and that loop does nothing else    *)
(* in between; a loop comes to its sleep only from the query of line 82     *)
(* taken while no byte was pending.                                         *)
C21_ReadAfterQuerySleepWhenIdle ==
    [][\A t \in Threads :
          /\ (tpc'[t] = "read" /\ tpc[t] # "read")
                => (tpc[t] = "query_on" /\ Len(ser_in) > 0)
          /\ (tpc[t] = "read" /\ tpc'[t] # "read")
                => (tpc'[t] = "count")
          /\ (tpc[t] = "count" /\ tpc'[t] # "count")
                => (tpc'[t] \in {"take", "dead"})
          /\ (tpc[t] = "take" /\ tpc'[t] # "take")
                => (tpc'[t] \in {"extend", "dead"})
          /\ (ser_in' # ser_in /\ wire' = wire)
                => (\E u \in Threads : tpc[u] = "take" /\ tpc'[u] = "extend")
          /\ (tpc'[t] = "sleep" /\ tpc[t] # "sleep")
                => (tpc[t] = "idle_on" /\ Len(ser_in) = 0)]_vars

\* a loop has read a frame off the transport, dispatched it, found nothing
\* more pending and is in its sleep
C21_Witness ==
    \E t \in Threads :
        /\ tpc[t] = "sleep"
        /\ fed # <<>>
        /\ ser_in = <<>>
        /\ Len(calls) >= 1
        /\ buffer = <<>>

-----------------------------------------------------------------------------
(* Shape of the dispatched frames                                          *)

(* C22: every dispatched frame has 0 <= dlc <= 15, dlc payload bytes and an *)
(* identifier of 16 bits, and it was built from a span of dlc + 5 bytes     *)
(* that had all been read when it was dispatched: the span lies within the  *)
(* bytes read so far, begins with 0xAA, has 0x55 at offset dlc + 4 and      *)
(* holds the payload at offsets 4 .. dlc + 3.                               *)
C22_DispatchedFrameWithinBytesRead ==
    LET spans == FrameSpans(steps, 0)
    IN  /\ Len(spans) = Len(calls)
        /\ \A i \in 1..Len(calls) :
              LET f  == calls[i].frame
                  at == spans[i].from
              IN  /\ f.dlc \in 0..15
                  /\ Len(f.data) = f.dlc
                  /\ f.id \in 0..65535
                  /\ at + f.dlc + 4 <= Len(fed)
                  /\ spans[i].to = at + f.dlc + 4
                  /\ fed[at] = 170
                  /\ fed[at + f.dlc + 4] = 85
                  /\ \A k \in 1..f.dlc : f.data[k] = fed[at + 3 + k]

\* the test frame arrived in several reads; it was dispatched, with its eight
\* payload bytes, by the pass that saw its last byte
C22_Witness ==
    /\ split
    /\ fed = TestFrame
    /\ Len(calls) = 1
    /\ calls[1].frame.dlc = 8
    /\ Len(calls[1].frame.data) = 8
    /\ steps = <<[kind |-> "frame", n |-> 13]>>

-----------------------------------------------------------------------------
(* Progress of a decode pass                                               *)

\* the number of bytes the steps taken removed
RECURSIVE TakenBytes(_)
TakenBytes(taken) ==
    IF taken = <<>> THEN 0 ELSE Head(taken).n + TakenBytes(Tail(taken))

(* C24: every step of the while loop that does not end the pass removes at  *)
(* least one byte: exactly 1 (resync, skip), 20 (command) or dlc + 5 (data  *)
(* frame span, dispatched or not), all of them bytes that were in the       *)
(* buffer; so the steps taken are at most as many as the bytes read, and    *)
(* each pass ends, on a buffer on which the loop stops.                     *)
C24_EveryStepShortensBuffer ==
    /\ \A i \in 1..Len(steps) :
          LET at == TakenBytes(SubSeq(steps, 1, i - 1))
              n  == steps[i].n
          IN  /\ n >= 1
              /\ at + n <= Len(fed)
              /\ steps[i].kind \in {"resync", "skip"} => n = 1
              /\ steps[i].kind = "command" => n = 20
              /\ steps[i].kind \in {"frame", "badend"} => n = (fed[at + 2] % 16) + 5
    /\ TakenBytes(steps) + Len(buffer) = Len(fed)
    /\ Len(steps) <= Len(fed)
    /\ DecodeStep(buffer).kind = "stop"

\* 0xAA followed by bytes that open no frame: one step per byte, the first
\* of them the pop of the start byte, and nothing is left
C24_Witness ==
    /\ Len(fed) >= 3
    /\ Len(steps) = Len(fed)
    /\ steps[1].kind = "skip"
    /\ \A i \in 2..Len(steps) : steps[i].kind = "resync"
    /\ ser_in = <<>>
    /\ buffer = <<>>

-----------------------------------------------------------------------------
(* Ownership of the accumulation buffer                                    *)

\* the loops standing at a statement that reads or assigns self.buffer: the
\* reset of line 79, the extend of line 89, or inside _process_buffer (lines
\* 97-136, the dispatch of a frame cut from the buffer included)
BufferUsers ==
    {t \in Threads : tpc[t] \in {"start", "extend", "l118", "call"} \cup BufferLines}

(* C23: self.buffer is read and assigned by one context only: never do two  *)
(* loops stand at statements that use it, and the frame a loop is           *)
(* dispatching stays at the head of the buffer until that loop removes it.  *)
C23_BufferUsedByOneLoop ==
    /\ Cardinality(BufferUsers) <= 1
    /\ \A t \in Threads :
          tpc[t] = "call" =>
              LET d == dlog[tloc[t].d]
              IN  /\ Len(buffer) >= d.n
                  /\ FrameOf(TakeFirst(buffer, d.n)) = d.frame

\* with one connect() per session a single loop uses the buffer
OneLoopOwnsBuffer == Len(conn) <= 1 => C23_BufferUsedByOneLoop

-----------------------------------------------------------------------------
(* What a pass leaves in the buffer                                        *)

(* C25: after every pass the buffer is empty, or it begins with 0xAA and is *)
(* a proper prefix of the frame its first two bytes announce (a lone 0xAA,  *)
(* fewer than 20 bytes of a command frame, fewer than dlc + 5 bytes of a    *)
(* data frame); it is never longer than 19 bytes.                           *)
C25_RetainedBufferIsPartialFrame ==
    /\ buffer = <<>> \/ IsPartial(buffer)
    /\ Len(buffer) <= 19
    /\ buffer # <<>> =>
          /\ buffer[1] = 170
          /\ Len(buffer) >= 2 =>
                Len(buffer) < (IF buffer[2] = 85 THEN 20 ELSE (buffer[2] % 16) + 5)

\* nineteen bytes of a command frame have been read, byte by byte, and are
\* all retained
C25_Witness ==
    /\ Len(buffer) = 19
    /\ buffer = fed
    /\ buffer[2] = 85
    /\ split
    /\ steps = <<>>

-----------------------------------------------------------------------------
(* The extended-frame flag                                                 *)

\* bit 0x20 of a byte
ExtBitSet(b) == (b \div EXT_BIT) % 2 = 1

\* the steps taken at a start byte whose type byte has bit 0x20 set, each
\* with the type byte and the step that followed (none: kind "stop")
ExtTypeSteps ==
    { [type |-> fed[TakenBytes(SubSeq(steps, 1, i - 1)) + 2],
       step |-> steps[i],
       next |-> IF i < Len(steps) THEN steps[i + 1] ELSE Stop] :
        i \in { j \in 1..Len(steps) :
                  /\ steps[j].kind # "resync"
                  /\ ExtBitSet(fed[TakenBytes(SubSeq(steps, 1, j - 1)) + 2]) } }

(* C26 as stated: every dispatched frame has is_extended = false, and a     *)
(* type byte with bit 0x20 set is never decoded as a data frame: the start  *)
(* byte before it is popped alone and the type byte is then discarded as a  *)
(* single resynchronisation byte.                                           *)
C26_ExtTypeByteDiscarded ==
    /\ \A i \in 1..Len(calls) : ~calls[i].frame.is_extended
    /\ \A e \in ExtTypeSteps :
          /\ e.step = [kind |-> "skip", n |-> 1]
          /\ e.next = [kind |-> "resync", n |-> 1]

(* C26 amended: every dispatched frame has is_extended = false; at a start  *)
(* byte whose type byte has bit 0x20 set no frame is decoded and the start  *)
(* byte alone is popped; the type byte is then discarded as a single        *)
(* resynchronisation byte unless it is 0xAA, which is kept as the next      *)
(* candidate start byte.                                                    *)
C26_NoExtendedFrameDispatched ==
    /\ \A i \in 1..Len(calls) : ~calls[i].frame.is_extended
    /\ \A e \in ExtTypeSteps :
          /\ e.step = [kind |-> "skip", n |-> 1]
          /\ e.type # 170 => e.next = [kind |-> "resync", n |-> 1]
          /\ e.type = 170 => e.next.kind # "resync"

\* 0xAA 0xAA 0x7F was read: the first 0xAA is popped and the second is kept
\* as a start byte, which is popped in turn before 0x7F is discarded
C26_Witness ==
    /\ fed = <<170, 170, 127>>
    /\ steps = <<[kind |-> "skip", n |-> 1], [kind |-> "skip", n |-> 1],
                 [kind |-> "resync", n |-> 1]>>
    /\ calls = <<>>
    /\ buffer = <<>>

====
